---------------------------- MODULE Spec2Model ----------------------------
(***************************************************************************)
(* A model of results.js: the retrying fetcher (fetchWithRetry), the page  *)
(* fetcher (fetchPatientsPage), the pagination collector                   *)
(* (fetchAllPatients), the risk assessor (assessPatients) and the run      *)
(* (main).                                                                 *)
(*                                                                         *)
(* JavaScript runs each piece of synchronous code to completion; a flow    *)
(* yields only at an `await`.  Every action below is one such piece: it    *)
(* starts where a promise settles or a timer fires and ends at the next    *)
(* await (or at the end of the function).                                  *)
(***************************************************************************)
EXTENDS Integers, Sequences, FiniteSets, TLC

(***************************************************************************)
(* JavaScript values of a record's fields, as JSON.parse can produce them  *)
(* (plus `undefined` for a missing field).  Strings are sequences of       *)
(* one-character strings.  A number is the decimal m / 10^d; IEEE rounding *)
(* is monotonic and the short decimals used here have distinct doubles, so *)
(* comparing the decimals agrees with comparing the doubles.               *)
(***************************************************************************)
Digits == {"0", "1", "2", "3", "4", "5", "6", "7", "8", "9"}

DigitVal(c) ==
  CASE c = "0" -> 0 [] c = "1" -> 1 [] c = "2" -> 2 [] c = "3" -> 3
    [] c = "4" -> 4 [] c = "5" -> 5 [] c = "6" -> 6 [] c = "7" -> 7
    [] c = "8" -> 8 [] c = "9" -> 9

JsVal(kind, mant, dec, chars) == [k |-> kind, m |-> mant, d |-> dec, s |-> chars]

Undefined == JsVal("undefined", 0, 0, <<>>)
Null      == JsVal("null", 0, 0, <<>>)
NaN       == JsVal("nan", 0, 0, <<>>)
JsObject  == JsVal("object", 0, 0, <<>>)
Dec(mant, dec) == JsVal("number", mant, dec, <<>>)
Num(n)    == Dec(n, 0)
Str(chars) == JsVal("string", 0, 0, chars)
Bool(b)   == JsVal("boolean", IF b THEN 1 ELSE 0, 0, <<>>)

RECURSIVE Pow10(_)
Pow10(n) == IF n = 0 THEN 1 ELSE 10 * Pow10(n - 1)

\* x >= y on JavaScript numbers; any comparison with NaN is false.
GE(x, y) ==
  /\ x.k = "number"
  /\ y.k = "number"
  /\ x.m * Pow10(y.d) >= y.m * Pow10(x.d)

GT(x, y) ==
  /\ x.k = "number"
  /\ y.k = "number"
  /\ x.m * Pow10(y.d) > y.m * Pow10(x.d)

LT(x, y) ==
  /\ x.k = "number"
  /\ y.k = "number"
  /\ x.m * Pow10(y.d) < y.m * Pow10(x.d)

AllDigits(s) == \A i \in 1..Len(s) : s[i] \in Digits

RECURSIVE DigitsValue(_)
DigitsValue(s) ==
  IF Len(s) = 0 THEN 0
  ELSE 10 * DigitsValue(SubSeq(s, 1, Len(s) - 1)) + DigitVal(s[Len(s)])

\* StrWhiteSpaceChar* removed from both ends.
RECURSIVE TrimLeft(_)
TrimLeft(s) ==
  IF Len(s) > 0 /\ s[1] = " " THEN TrimLeft(Tail(s)) ELSE s

RECURSIVE TrimRight(_)
TrimRight(s) ==
  IF Len(s) > 0 /\ s[Len(s)] = " " THEN TrimRight(SubSeq(s, 1, Len(s) - 1)) ELSE s

\* StrUnsignedDecimalLiteral without exponent: digits, digits '.', digits '.'
\* digits, '.' digits.
UnsignedDecimal(s) ==
  LET dots == {i \in 1..Len(s) : s[i] = "."}
  IN  IF dots = {}
      THEN IF Len(s) > 0 /\ AllDigits(s) THEN Dec(DigitsValue(s), 0) ELSE NaN
      ELSE LET p    == CHOOSE i \in dots : TRUE
               int  == SubSeq(s, 1, p - 1)
               frac == SubSeq(s, p + 1, Len(s))
           IN  IF /\ Cardinality(dots) = 1
                  /\ AllDigits(int)
                  /\ AllDigits(frac)
                  /\ Len(int) + Len(frac) > 0
               THEN Dec(DigitsValue(int \o frac), Len(frac))
               ELSE NaN

\* Number(string): the empty (or blank) string is 0; an optionally signed
\* decimal literal is its value; anything else is NaN.  (Exponents, hex
\* literals and "Infinity" use characters outside the modelled inputs.)
StringToNumber(s) ==
  LET t == TrimRight(TrimLeft(s))
  IN  IF Len(t) = 0 THEN Num(0)
      ELSE IF t[1] = "-"
           THEN LET u == UnsignedDecimal(Tail(t))
                IN  IF u.k = "number" THEN Dec(0 - u.m, u.d) ELSE NaN
           ELSE IF t[1] = "+" THEN UnsignedDecimal(Tail(t))
           ELSE UnsignedDecimal(t)

\* Number(v)
ToNumber(v) ==
  CASE v.k = "number"    -> v
    [] v.k = "nan"       -> NaN
    [] v.k = "undefined" -> NaN
    [] v.k = "null"      -> Num(0)
    [] v.k = "boolean"   -> Num(v.m)
    [] v.k = "string"    -> StringToNumber(v.s)
    [] v.k = "object"    -> NaN

\* Number.isFinite(x) for the result of a coercion
IsFinite(x) == x.k = "number"


(***************************************************************************)
(* assessPatients: the body of the loop over the records.                  *)
(***************************************************************************)
PatientRecord(id, age, temperature, bp) ==
  [patient_id |-> id, age |-> age, temperature |-> temperature,
   blood_pressure |-> bp]

\* bp.match(/^(\d{2,3})\/(\d{2,3})$/) for a string bp: the set of matches
\* (empty when there is none), each the pair of captured groups.
BpMatches(s) ==
  {<<SubSeq(s, 1, n), SubSeq(s, n + 2, Len(s))>> :
     n \in {i \in 2..3 : /\ Len(s) - (i + 1) \in 2..3
                         /\ AllDigits(SubSeq(s, 1, i))
                         /\ s[i + 1] = "/"
                         /\ AllDigits(SubSeq(s, i + 2, Len(s)))}}

\* The bands with > written for >=.
BpBandStrict(sys, dia) ==
  IF sys > 140 \/ dia > 90 THEN 3
  ELSE IF sys > 130 \/ dia > 80 THEN 2
  ELSE IF sys > 120 /\ dia < 80 THEN 1
  ELSE 0

\* Lines 116-119: the band of a matched systolic/diastolic pair.
BpBand(sys, dia) ==
  IF sys >= 140 \/ dia >= 90 THEN 3
  ELSE IF sys >= 130 \/ dia >= 80 THEN 2
  ELSE IF sys >= 120 /\ dia < 80 THEN 1
  ELSE IF sys < 120 /\ dia < 80 THEN 0
  ELSE 0

\* Lines 91-95
AgeRisk(age) ==
  IF IsFinite(age)
  THEN IF GE(age, Num(66)) THEN 2 ELSE IF GE(age, Num(40)) THEN 1 ELSE 0
  ELSE 0

\* The temperature bands with > written for >=.
TempRiskStrict(temp) ==
  IF IsFinite(temp)
  THEN IF GT(temp, Num(101)) THEN 2 ELSE IF GT(temp, Dec(996, 1)) THEN 1 ELSE 0
  ELSE 0

\* Lines 100-104
TempRisk(temp) ==
  IF IsFinite(temp)
  THEN IF GE(temp, Num(101)) THEN 2 ELSE IF GE(temp, Dec(996, 1)) THEN 1 ELSE 0
  ELSE 0

\* Lines 86-123: the values the loop body computes for one record.
RiskFactors(p) ==
  LET age   == ToNumber(p.age)
      temp  == ToNumber(p.temperature)
      bp    == p.blood_pressure
      match == IF bp.k = "string" THEN BpMatches(bp.s) ELSE {}
      m     == CHOOSE g \in match : TRUE
      sys   == IF match # {} THEN DigitsValue(m[1]) ELSE 0
      dia   == IF match # {} THEN DigitsValue(m[2]) ELSE 0
      ageRisk  == AgeRisk(age)
      tempRisk == TempRisk(temp)
      bpRisk   == IF match # {} THEN BpBand(sys, dia) ELSE 0
  IN  [id        |-> p.patient_id,
       age       |-> age,
       ageValid  |-> IsFinite(age),
       ageRisk   |-> ageRisk,
       temp      |-> temp,
       tempValid |-> IsFinite(temp),
       tempRisk  |-> tempRisk,
       bpValid   |-> match # {},
       sys       |-> sys,
       dia       |-> dia,
       bpRisk    |-> bpRisk,
       totalRisk |-> ageRisk + tempRisk + bpRisk]

NoAlerts == [highRiskPatients |-> <<>>, feverPatients |-> <<>>,
             dataQualityIssues |-> <<>>]

\* The buckets with the high-risk bucket also asking for a temperature risk.
BucketsFeverOnly(alerts, f) ==
  [highRiskPatients  |-> IF f.totalRisk >= 4 /\ f.tempRisk > 0
                         THEN Append(alerts.highRiskPatients, f.id)
                         ELSE alerts.highRiskPatients,
   feverPatients     |-> IF f.tempValid /\ GE(f.temp, Dec(996, 1))
                         THEN Append(alerts.feverPatients, f.id)
                         ELSE alerts.feverPatients,
   dataQualityIssues |-> IF ~f.bpValid \/ ~f.ageValid \/ ~f.tempValid
                         THEN Append(alerts.dataQualityIssues, f.id)
                         ELSE alerts.dataQualityIssues]

\* The data-quality bucket asking for all three components to be invalid.
BucketsAllInvalid(alerts, f) ==
  [highRiskPatients  |-> IF f.totalRisk >= 4
                         THEN Append(alerts.highRiskPatients, f.id)
                         ELSE alerts.highRiskPatients,
   feverPatients     |-> IF f.tempValid /\ GE(f.temp, Dec(996, 1))
                         THEN Append(alerts.feverPatients, f.id)
                         ELSE alerts.feverPatients,
   dataQualityIssues |-> IF ~f.bpValid /\ ~f.ageValid /\ ~f.tempValid
                         THEN Append(alerts.dataQualityIssues, f.id)
                         ELSE alerts.dataQualityIssues]

\* The high-risk bucket taking a total risk of 3.
BucketsLowBar(alerts, f) ==
  [highRiskPatients  |-> IF f.totalRisk >= 3
                         THEN Append(alerts.highRiskPatients, f.id)
                         ELSE alerts.highRiskPatients,
   feverPatients     |-> IF f.tempValid /\ GE(f.temp, Dec(996, 1))
                         THEN Append(alerts.feverPatients, f.id)
                         ELSE alerts.feverPatients,
   dataQualityIssues |-> IF ~f.bpValid \/ ~f.ageValid \/ ~f.tempValid
                         THEN Append(alerts.dataQualityIssues, f.id)
                         ELSE alerts.dataQualityIssues]

\* Lines 125-128: the alert buckets after one record.
Buckets(alerts, f) ==
  [highRiskPatients  |-> IF f.totalRisk >= 4
                         THEN Append(alerts.highRiskPatients, f.id)
                         ELSE alerts.highRiskPatients,
   feverPatients     |-> IF f.tempValid /\ GE(f.temp, Dec(996, 1))
                         THEN Append(alerts.feverPatients, f.id)
                         ELSE alerts.feverPatients,
   dataQualityIssues |-> IF ~f.bpValid \/ ~f.ageValid \/ ~f.tempValid
                         THEN Append(alerts.dataQualityIssues, f.id)
                         ELSE alerts.dataQualityIssues]

\* assessPatients(patients): the loop, from the first record to the last.
\* (The one-element sets bind each iteration's result as a value, so that it
\* is computed once.)
RECURSIVE AssessFrom(_, _)
AssessFrom(alerts, patients) ==
  IF Len(patients) = 0 THEN alerts
  ELSE CHOOSE result \in
         {AssessFrom(next, Tail(patients)) :
            next \in {Buckets(alerts, f) : f \in {RiskFactors(Head(patients))}}} : TRUE

assessPatients(patients) == AssessFrom(NoAlerts, patients)


(***************************************************************************)
(* The inputs of the model.                                                *)
(***************************************************************************)
\* The most requests one fetchWithRetry call is made to issue: the server
\* answers the last of them with something other than 429, 500 or 503.
MaxAttempts == 3

\* The most records one assessPatients call is given.
MaxPatients == 2

\* Two records of a page: the spec's two worked examples.
SampleHighRisk ==
  PatientRecord("P1", Num(70), Num(102), Str(<<"1", "5", "0", "/", "9", "5">>))
SampleBadAge ==
  PatientRecord("P2", Str(<<"u", "n", "k", "n", "o", "w", "n">>), Num(98),
                Str(<<"1", "1", "0", "/", "7", "0">>))

\* The JSON values a response body can parse to.  `data` is "undefined"
\* when the payload has no such field.
JsonValue(kind, items) == [k |-> kind, items |-> items]
Payload(kind, data) == [k |-> kind, data |-> data]

DataArrays == {<<>>, <<SampleHighRisk>>, <<SampleBadAge>>,
               <<SampleBadAge, SampleHighRisk>>}

Payloads ==
  {Payload("null", JsonValue("undefined", <<>>)),
   Payload("number", JsonValue("undefined", <<>>)),
   Payload("object", JsonValue("undefined", <<>>)),
   Payload("object", JsonValue("null", <<>>)),
   Payload("object", JsonValue("string", <<>>))}
  \cup {Payload("object", JsonValue("array", a)) : a \in DataArrays}

NoPayload == Payload("none", JsonValue("undefined", <<>>))

\* A response body: text that parses as JSON to `json`, or does not parse.
Body(parses, json) == [parses |-> parses, json |-> json]
NotJson == Body(FALSE, NoPayload)
Bodies == {NotJson} \cup {Body(TRUE, v) : v \in Payloads}

Response(status, body) == [status |-> status, body |-> body]
NoResponse == Response(0, NotJson)

\* The statuses the server answers with; a body is read only from an ok one.
Statuses == {200, 401, 404, 429, 500, 503}
SubmitStatuses == {200, 429, 500}
SubmitBodies == {NotJson, Body(TRUE, Payload("object", JsonValue("undefined", <<>>)))}

\* res.ok
Ok(status) == status \in 200..299

\* The values of a record's fields that assessPatients is tried on.
Ages ==
  {Num(39), Num(40), Num(65), Num(66), Num(70), Dec(399, 1),
   Str(<<"4", "5">>), Str(<<"u", "n", "k", "n", "o", "w", "n">>), Str(<<>>),
   Undefined, Null}
Temperatures ==
  {Num(98), Dec(995, 1), Dec(996, 1), Dec(1009, 1), Num(101), Num(102),
   Str(<<"9", "9", ".", "6">>), Str(<<"a", "b", "c">>), Undefined, Null}
BloodPressures ==
  {Str(<<"1", "5", "0", "/", "9", "5">>), Str(<<"1", "4", "5", "/", "9", "5">>),
   Str(<<"1", "2", "5", "/", "8", "5">>), Str(<<"1", "2", "2", "/", "7", "5">>),
   Str(<<"1", "1", "0", "/", "7", "0">>), Str(<<"1", "4", "0", "/", "7", "0">>),
   Str(<<"1", "1", "0", "/", "9", "0">>), Str(<<"1", "3", "0", "/", "7", "9">>),
   Str(<<"1", "1", "9", "/", "8", "0">>), Str(<<"1", "2", "0", "/", "7", "9">>),
   Str(<<"1", "1", "9", "/", "7", "9">>), Str(<<"9", "0", "/", "6", "0">>),
   Str(<<"a", "b", "c", "/", "7", "0">>), Str(<<"1", "2", "0", "0", "/", "8", "0">>),
   Str(<<"1", "2", "0", "/", "8">>), Str(<<"1", "2", "0", "/", "8", "0", " ">>),
   Str(<<"1", "2", "0">>), Num(120), Undefined, Null}

(***************************************************************************)
(* The state.                                                              *)
(***************************************************************************)
VARIABLES
  pc,           \* where the run's flow is suspended
  page,         \* fetchAllPatients: page
  allPatients,  \* fetchAllPatients: allPatients
  attempt,      \* fetchWithRetry: attempt
  res,          \* fetchWithRetry: res, the response of the last request
  net,          \* the requests issued and not yet answered, in issue order
  timers,       \* the setTimeout timers pending, in the order they were set
  fwrResult,    \* the promise fetchWithRetry returned
  fppResult,    \* the promise fetchPatientsPage returned
  fapResult,    \* the promise fetchAllPatients returned
  alerts,       \* main: alerts
  summary,      \* what main wrote to the console at lines 143-145
  sub,          \* where the promise chain of the submission is, lines 153-164
  subRes,       \* the response of the submission request
  trace,        \* what the current fetchWithRetry call did, in order
  accepted,     \* the pages fetchAllPatients pushed, in order
  apc,          \* assessPatients: where the loop is
  p,            \* assessPatients: p, the record of the current iteration
  f,            \* assessPatients: the values computed for p
  buckets,      \* assessPatients: highRisk, fever, dataIssues
  ids           \* the patient_id of the records the loop has taken, in order

vars == <<pc, page, allPatients, attempt, res, net, timers, fwrResult,
          fppResult, fapResult, alerts, summary, sub, subRes, trace,
          accepted, apc, p, f, buckets, ids>>

runVars == <<pc, page, allPatients, attempt, res, net, timers, fwrResult,
             fppResult, fapResult, alerts, summary, sub, subRes, trace,
             accepted>>

assessVars == <<apc, p, f, buckets, ids>>

\* A promise: pending, fulfilled with a value, or rejected with an error.
Promise(state, value, error, status) ==
  [state |-> state, value |-> value, error |-> error, status |-> status]

Event(e, n) == [e |-> e, n |-> n]

PendingJson == Promise("pending", NoPayload, "none", 0)
PendingList == Promise("pending", <<>>, "none", 0)

NoRecord == PatientRecord("", Undefined, Undefined, Undefined)

(***************************************************************************)
(* fetchWithRetry                                                          *)
(***************************************************************************)
\* The cooldowns of the two retried classes, exchanged.
RetryWaitSwapped(status) ==
  IF status = 429 THEN 1000
  ELSE IF status = 500 \/ status = 503 THEN 15000
  ELSE 0

\* 503 left out of the retried statuses.
RetryWaitNo503(status) ==
  IF status = 429 THEN 15000
  ELSE IF status = 500 THEN 1000
  ELSE 0

\* Lines 14-24: the wait before the retry of a response with this status;
\* 0 when the status is not retried.
RetryWait(status) ==
  IF status = 429 THEN 15000
  ELSE IF status = 500 \/ status = 503 THEN 1000
  ELSE 0

GetRequest(pg) ==
  [method |-> "GET", page |-> pg,
   body |-> [high_risk_patients |-> <<>>, fever_patients |-> <<>>,
             data_quality_issues |-> <<>>]]
PostRequest(results) == [method |-> "POST", page |-> 0, body |-> results]

\* Lines 11-12: attempt++ and the request.
Fetch(pg, n) ==
  /\ attempt' = n
  /\ net' = Append(net, GetRequest(pg))
  /\ trace' = Append(IF n = 1 THEN <<>> ELSE trace, Event("request", n))
  /\ pc' = "fwr_fetch"

\* res.json()
ParseJson(body) ==
  IF body.parses
  THEN Promise("fulfilled", body.json, "none", 0)
  ELSE Promise("rejected", NoPayload, "SyntaxError", 0)

\* What the server may answer the request of the current attempt with: a
\* transient status only while the attempt is not the last one.
TransientStatuses == {429, 500, 503}

GetResponses ==
  {Response(s, NotJson) :
     s \in {t \in Statuses : ~Ok(t) /\
                             (t \notin TransientStatuses \/ attempt < MaxAttempts)}}
  \cup {Response(s, b) : s \in {t \in Statuses : Ok(t)}, b \in Bodies}

\* Line 12 resumes with a response: lines 14-30.
FetchResolve ==
  /\ pc = "fwr_fetch"
  /\ Len(net) > 0
  /\ \E r \in GetResponses :
       /\ net' = Tail(net)
       /\ res' = r
       /\ IF RetryWait(r.status) # 0
          THEN /\ timers' = Append(timers, RetryWait(r.status))
               /\ trace' = trace \o <<Event("response", r.status),
                                      Event("wait", RetryWait(r.status))>>
               /\ pc' = "fwr_wait"
               /\ fwrResult' = fwrResult
          ELSE /\ timers' = timers
               /\ trace' = Append(trace, Event("response", r.status))
               /\ IF ~Ok(r.status)
                  THEN /\ fwrResult' = Promise("rejected", NoPayload, "HttpError", r.status)
                       /\ pc' = "fpp_await"
                  ELSE /\ fwrResult' = fwrResult
                       /\ pc' = "fwr_json"
  /\ UNCHANGED <<page, allPatients, attempt, fppResult, fapResult, alerts,
                 summary, sub, subRes, accepted>>
  /\ UNCHANGED assessVars

\* Line 12 resumes with the rejection of fetch (the request itself failed).
FetchReject ==
  /\ pc = "fwr_fetch"
  /\ Len(net) > 0
  /\ net' = Tail(net)
  /\ trace' = Append(trace, Event("failed", 0))
  /\ fwrResult' = Promise("rejected", NoPayload, "TypeError", 0)
  /\ pc' = "fpp_await"
  /\ UNCHANGED <<page, allPatients, attempt, res, timers, fppResult, fapResult,
                 alerts, summary, sub, subRes, accepted>>
  /\ UNCHANGED assessVars

\* Line 30 resumes: the body is parsed, or is not JSON.
JsonSettle ==
  /\ pc = "fwr_json"
  /\ fwrResult' = ParseJson(res.body)
  /\ pc' = "fpp_await"
  /\ UNCHANGED <<page, allPatients, attempt, res, net, timers, fppResult,
                 fapResult, alerts, summary, sub, subRes, trace, accepted>>
  /\ UNCHANGED assessVars

\* The timer of line 16 or 22 fires: `continue`, then lines 11-12.
RetryTimerFire ==
  /\ pc = "fwr_wait"
  /\ Len(timers) > 0
  /\ timers' = Tail(timers)
  /\ Fetch(page, attempt + 1)
  /\ UNCHANGED <<page, allPatients, res, fwrResult, fppResult, fapResult,
                 alerts, summary, sub, subRes, accepted>>
  /\ UNCHANGED assessVars

(***************************************************************************)
(* fetchPatientsPage                                                       *)
(***************************************************************************)
\* Lines 46-47: response.data ?? [], then the Array.isArray test.  Reading
\* .data of null throws; of any other value without the field it is undefined.
Unwrap(response) ==
  IF response.k = "null"
  THEN Promise("rejected", <<>>, "TypeError", 0)
  ELSE LET raw == IF response.data.k \in {"undefined", "null"}
                  THEN JsonValue("array", <<>>)
                  ELSE response.data
       IN  Promise("fulfilled", IF raw.k = "array" THEN raw.items ELSE <<>>,
                   "none", 0)

\* The handler rethrowing what it caught.
CatchRethrow(tried) == tried

\* The handler rethrowing an HTTP error and swallowing the rest.
CatchRethrowHttp(tried) ==
  IF tried.state = "rejected" /\ tried.error # "HttpError"
  THEN Promise("fulfilled", <<>>, "none", 0)
  ELSE tried

\* Lines 48-51: the catch around lines 40-47.
Catch(tried) ==
  IF tried.state = "rejected"
  THEN Promise("fulfilled", <<>>, "none", 0)
  ELSE tried

\* Lines 39-51: what fetchPatientsPage returns once fetchWithRetry settled.
FetchPatientsPageReturn(settled) ==
  Catch(IF settled.state = "rejected"
        THEN Promise("rejected", <<>>, settled.error, settled.status)
        ELSE Unwrap(settled.value))

\* Line 40 resumes.
FppResume ==
  /\ pc = "fpp_await"
  /\ fppResult' = FetchPatientsPageReturn(fwrResult)
  /\ pc' = "fap_await"
  /\ UNCHANGED <<page, allPatients, attempt, res, net, timers, fwrResult,
                 fapResult, alerts, summary, sub, subRes, trace, accepted>>
  /\ UNCHANGED assessVars

(***************************************************************************)
(* fetchAllPatients                                                        *)
(***************************************************************************)
\* Lines 61, 36-40 and 8-12: the call of fetchPatientsPage(pg), down to the
\* first request of fetchWithRetry.
CallFetchPatientsPage(pg) ==
  /\ fppResult' = PendingList
  /\ fwrResult' = PendingJson
  /\ res' = NoResponse
  /\ Fetch(pg, 1)

\* The loop stopping one page early.
PageInRangeShort(pg) == pg < 3

\* The loop going on for one page more.
PageInRangeLong(pg) == pg <= 4

\* Line 59: the loop's test.
PageInRange(pg) == pg <= 3

\* The page put in front of the accumulator.
PushFront(all, patients) == patients \o all

\* Only the first record of the page pushed.
PushFirstOnly(all, patients) == all \o SubSeq(patients, 1, 1)

\* The page dropped instead of pushed.
PushNothing(all, patients) == all

\* Line 68: allPatients.push(...patients)
Push(all, patients) == all \o patients

\* Line 59 and, when the test fails, lines 75-76.
WhileTest(pg, all) ==
  IF PageInRange(pg)
  THEN /\ CallFetchPatientsPage(pg)
       /\ fapResult' = fapResult
  ELSE /\ fapResult' = Promise("fulfilled", all, "none", 0)
       /\ pc' = "main_await"
       /\ UNCHANGED <<attempt, res, net, fwrResult, fppResult, trace>>

\* An empty page taken like any other.
NoPatientsNever(patients) == FALSE

\* Line 63: !patients.length
NoPatients(patients) == Len(patients) = 0

\* main is called: lines 140, 56-61, 36-40, 8-12.
Start ==
  /\ pc = "start"
  /\ allPatients' = <<>>
  /\ page' = 1
  /\ WhileTest(1, <<>>)
  /\ UNCHANGED <<timers, alerts, summary, sub, subRes, accepted>>
  /\ UNCHANGED assessVars

\* Line 61 resumes: lines 63-72 and, after `continue`, the loop again.
FapResume ==
  /\ pc = "fap_await"
  /\ IF fppResult.state = "rejected"
     THEN /\ fapResult' = Promise("rejected", <<>>, fppResult.error, fppResult.status)
          /\ pc' = "main_await"
          /\ UNCHANGED <<page, allPatients, attempt, res, net, timers,
                         fwrResult, fppResult, trace, accepted>>
     ELSE IF NoPatients(fppResult.value)
     THEN /\ WhileTest(page, allPatients)
          /\ UNCHANGED <<page, allPatients, timers, accepted>>
     ELSE /\ allPatients' = Push(allPatients, fppResult.value)
          /\ accepted' = Append(accepted, [page |-> page, patients |-> fppResult.value])
          /\ page' = page + 1
          /\ timers' = Append(timers, 1000)
          /\ pc' = "fap_wait"
          /\ UNCHANGED <<attempt, res, net, fwrResult, fppResult, fapResult, trace>>
  /\ UNCHANGED <<alerts, summary, sub, subRes>>
  /\ UNCHANGED assessVars

\* The timer of line 72 fires: the loop's test again.
PaceTimerFire ==
  /\ pc = "fap_wait"
  /\ Len(timers) > 0
  /\ timers' = Tail(timers)
  /\ WhileTest(page, allPatients)
  /\ UNCHANGED <<page, allPatients, alerts, summary, sub, subRes, accepted>>
  /\ UNCHANGED assessVars

(***************************************************************************)
(* main                                                                    *)
(***************************************************************************)
\* The payload with the fever and data-quality lists exchanged.
ResultsSwapped(a) ==
  [high_risk_patients  |-> a.highRiskPatients,
   fever_patients      |-> a.dataQualityIssues,
   data_quality_issues |-> a.feverPatients]

\* Lines 147-151
Results(a) ==
  [high_risk_patients  |-> a.highRiskPatients,
   fever_patients      |-> a.feverPatients,
   data_quality_issues |-> a.dataQualityIssues]


\* Line 140 resumes: lines 141-160; the submission is requested and main
\* returns without awaiting it.
MainResume ==
  /\ pc = "main_await"
  /\ IF fapResult.state = "rejected"
     THEN /\ pc' = "main_rejected"
          /\ UNCHANGED <<alerts, summary, net, sub>>
     ELSE \E a \in {assessPatients(fapResult.value)} :
            /\ alerts' = a
            /\ summary' = <<a.highRiskPatients, a.feverPatients,
                            a.dataQualityIssues>>
            /\ net' = Append(net, PostRequest(Results(a)))
            /\ sub' = "fetch"
            /\ pc' = "main_done"
  /\ UNCHANGED <<page, allPatients, attempt, res, timers, fwrResult,
                 fppResult, fapResult, subRes, trace, accepted>>
  /\ UNCHANGED assessVars

\* The chain ending with a handler that takes the rejection and says nothing.
ThenLogCaught(settled) ==
  IF settled.state = "fulfilled" THEN "logged" ELSE "caught"

\* Lines 162-164: the last .then has a fulfilment handler only, which logs
\* the data; a rejection reaches the end of the chain with no handler and is
\* raised at the top level as an unhandled rejection.
ThenLog(settled) ==
  IF settled.state = "fulfilled" THEN "logged" ELSE "unhandled_rejection"

\* The submission is answered: line 161, whatever the status.
SubmitResolve ==
  /\ sub = "fetch"
  /\ Len(net) > 0
  /\ \E st \in SubmitStatuses, b \in SubmitBodies : subRes' = Response(st, b)
  /\ net' = Tail(net)
  /\ sub' = "json"
  /\ UNCHANGED <<pc, page, allPatients, attempt, res, timers, fwrResult,
                 fppResult, fapResult, alerts, summary, trace, accepted>>
  /\ UNCHANGED assessVars

\* The submission request itself fails: the chain has no rejection handler.
SubmitReject ==
  /\ sub = "fetch"
  /\ Len(net) > 0
  /\ net' = Tail(net)
  /\ sub' = ThenLog(Promise("rejected", NoPayload, "TypeError", 0))
  /\ UNCHANGED <<pc, page, allPatients, attempt, res, timers, fwrResult,
                 fppResult, fapResult, alerts, summary, subRes, trace, accepted>>
  /\ UNCHANGED assessVars

\* response.json() of line 161 settles: lines 162-164, or no handler.
SubmitJsonSettle ==
  /\ sub = "json"
  /\ sub' = ThenLog(ParseJson(subRes.body))
  /\ UNCHANGED <<pc, page, allPatients, attempt, res, net, timers, fwrResult,
                 fppResult, fapResult, alerts, summary, subRes, trace, accepted>>
  /\ UNCHANGED assessVars

(***************************************************************************)
(* The run.                                                                *)
(***************************************************************************)
Init ==
  /\ pc = "start"
  /\ page = 0
  /\ allPatients = <<>>
  /\ attempt = 0
  /\ res = NoResponse
  /\ net = <<>>
  /\ timers = <<>>
  /\ fwrResult = PendingJson
  /\ fppResult = PendingList
  /\ fapResult = PendingList
  /\ alerts = NoAlerts
  /\ summary = <<>>
  /\ sub = "none"
  /\ subRes = NoResponse
  /\ trace = <<>>
  /\ accepted = <<>>
  /\ p = NoRecord
  /\ f = RiskFactors(NoRecord)
  /\ buckets = NoAlerts
  /\ ids = <<>>

RunInit ==
  /\ Init
  /\ apc = "idle"

Next ==
  \/ Start
  \/ FetchResolve
  \/ FetchReject
  \/ JsonSettle
  \/ RetryTimerFire
  \/ FppResume
  \/ FapResume
  \/ PaceTimerFire
  \/ MainResume
  \/ SubmitResolve
  \/ SubmitReject
  \/ SubmitJsonSettle

Spec == RunInit /\ [][Next]_vars

\* The event loop runs every continuation that is ready and fires every timer
\* that is due, and every request is answered or fails; which answer the
\* server gives is left open.  At most one of the run's flows (main's, then
\* the submission's promise chain) has a step to take in any state, so weak
\* fairness of Next is weak fairness of each of them.
LiveSpec == Spec /\ WF_vars(Next)

(***************************************************************************)
(* assessPatients on its own: called with a list of at most MaxPatients    *)
(* records, each drawn from the field values above; one step of the        *)
(* specification is one iteration of the loop of line 85.                  *)
(***************************************************************************)
PatientIdAt(i) == <<"P1", "P2", "P3", "P4">>[i]

\* The records the next iteration may be given: identifiers are distinct.
Records ==
  {PatientRecord(PatientIdAt(Len(ids) + 1), a, t, b) :
     a \in Ages, t \in Temperatures, b \in BloodPressures}

\* Lines 81-83
AssessInit ==
  /\ Init
  /\ apc = "loop"

\* Lines 85-129: one iteration, for the next record of the list.
AssessRecord ==
  /\ apc = "loop"
  /\ Len(ids) < MaxPatients
  /\ \E rec \in Records :
       /\ p' = rec
       /\ f' = RiskFactors(rec)
       /\ buckets' = Buckets(buckets, f')
       /\ ids' = Append(ids, rec.patient_id)
  /\ apc' = "iterated"
  /\ UNCHANGED runVars

\* Line 85: the iteration's bindings end and the loop moves on.
AssessAdvance ==
  /\ apc = "iterated"
  /\ apc' = "loop"
  /\ p' = NoRecord
  /\ f' = RiskFactors(NoRecord)
  /\ UNCHANGED <<buckets, ids>>
  /\ UNCHANGED runVars

\* Lines 131-135: the list is exhausted.
AssessReturn ==
  /\ apc = "loop"
  /\ apc' = "returned"
  /\ UNCHANGED <<p, f, buckets, ids>>
  /\ UNCHANGED runVars

AssessNext == AssessRecord \/ AssessAdvance \/ AssessReturn

AssessSpec == AssessInit /\ [][AssessNext]_vars

(***************************************************************************)
(* Properties of fetchWithRetry, fetchPatientsPage and fetchAllPatients.   *)
(***************************************************************************)
\* The statuses of the responses the current fetchWithRetry call received.
RECURSIVE StatusesOf(_)
StatusesOf(tr) ==
  IF Len(tr) = 0 THEN <<>>
  ELSE IF Head(tr).e = "response" THEN <<Head(tr).n>> \o StatusesOf(Tail(tr))
  ELSE StatusesOf(Tail(tr))

\* What a call does that receives the statuses st, all but the last of them
\* transient: request i, response i and, but for the last, a wait of 15 s
\* after a 429 and of 1 s after a 500 or a 503.
RECURSIVE RetrySchedule(_, _)
RetrySchedule(st, i) ==
  IF i > Len(st) THEN <<>>
  ELSE <<Event("request", i), Event("response", st[i])>>
       \o (IF i < Len(st)
           THEN <<Event("wait", IF st[i] = 429 THEN 15000 ELSE 1000)>>
           ELSE <<>>)
       \o RetrySchedule(st, i + 1)

\* C1: a fetchWithRetry call answered by k transient statuses (429, 500, 503)
\* and then a success status issues exactly k+1 requests, waits 15 s after
\* each 429 and 1 s after each 500/503 before the next request, in the order
\* of the responses, and returns the parsed JSON body of the success response
\* (its body being JSON).
C1_RetryUntilSuccess ==
  LET st == StatusesOf(trace)
  IN  /\ fwrResult.state = "fulfilled" =>
           /\ Len(st) >= 1
           /\ \A i \in 1..(Len(st) - 1) : st[i] \in TransientStatuses
           /\ Ok(st[Len(st)])
           /\ attempt = Len(st)
           /\ trace = RetrySchedule(st, 1)
           /\ pc = "fpp_await" => timers = <<>> /\ net = <<>>
           /\ res.body.parses
           /\ fwrResult.value = res.body.json
      /\ (/\ Len(st) >= 1
          /\ Ok(st[Len(st)])
          /\ res.body.parses
          /\ pc # "fwr_json") => fwrResult.state = "fulfilled"

C1_Witness ==
  /\ fwrResult.state = "fulfilled"
  /\ attempt = 3
  /\ trace = <<Event("request", 1), Event("response", 429), Event("wait", 15000),
               Event("request", 2), Event("response", 500), Event("wait", 1000),
               Event("request", 3), Event("response", 200)>>
  /\ fwrResult.value = Payload("object", JsonValue("array", <<SampleHighRisk>>))

\* C2: fetchWithRetry fails with an HTTP error carrying the status exactly
\* when a response has a non-success status other than 429, 500 and 503; that
\* response is the last thing the call does (no wait, no further request); a
\* 429, 500 or 503 is never the status of an error.
C2_HardStatusFailsAtOnce ==
  LET st   == StatusesOf(trace)
      hard == {i \in 1..Len(trace) :
                 /\ trace[i].e = "response"
                 /\ ~Ok(trace[i].n)
                 /\ trace[i].n \notin {429, 500, 503}}
  IN  /\ (fwrResult.state = "rejected" /\ fwrResult.error = "HttpError")
           <=> hard # {}
      /\ \A i \in hard :
           /\ i = Len(trace)
           /\ fwrResult.status = trace[i].n
           /\ timers = <<>>
           /\ net = <<>>
      /\ fwrResult.state = "rejected" => fwrResult.status \notin {429, 500, 503}

C2_Witness ==
  /\ fwrResult.state = "rejected"
  /\ fwrResult.error = "HttpError"
  /\ fwrResult.status = 404
  /\ StatusesOf(trace) = <<503, 404>>

\* C3: fetchPatientsPage never fails: when fetchWithRetry failed (HTTP error,
\* body not JSON, request failed) or the payload's data is absent, null or not
\* an array, it returns the empty sequence; otherwise exactly the data array.
C3_PageNeverFails ==
  /\ fppResult.state # "rejected"
  /\ fppResult.state = "fulfilled" =>
       /\ fwrResult.state # "pending"
       /\ fppResult.value =
            IF fwrResult.state = "rejected" THEN <<>>
            ELSE IF fwrResult.value.data.k # "array" THEN <<>>
            ELSE fwrResult.value.data.items

C3_Witness ==
  /\ fppResult.state = "fulfilled"
  /\ fppResult.value = <<>>
  /\ fwrResult.state = "rejected"
  /\ fwrResult.error = "SyntaxError"

\* C4: the sequence fetchAllPatients returns is the concatenation, in page
\* order 1, 2, 3, of the one non-empty page pushed for each page, each in its
\* own order; its length is the sum of their lengths.
C4_ResultIsPagesInOrder ==
  fapResult.state = "fulfilled" =>
    /\ Len(accepted) = 3
    /\ \A i \in 1..3 : accepted[i].page = i /\ Len(accepted[i].patients) > 0
    /\ fapResult.value =
         accepted[1].patients \o accepted[2].patients \o accepted[3].patients
    /\ Len(fapResult.value) =
         Len(accepted[1].patients) + Len(accepted[2].patients)
           + Len(accepted[3].patients)

C4_Witness ==
  /\ fapResult.state = "fulfilled"
  /\ accepted = <<[page |-> 1, patients |-> <<SampleBadAge, SampleHighRisk>>],
                  [page |-> 2, patients |-> <<SampleHighRisk>>],
                  [page |-> 3, patients |-> <<SampleBadAge>>]>>
  /\ fapResult.value =
       <<SampleBadAge, SampleHighRisk, SampleHighRisk, SampleBadAge>>

Page3Collected == \E i \in 1..Len(accepted) : accepted[i].page = 3
Returned == fapResult.state = "fulfilled"

\* C5: fetchAllPatients returns only after a non-empty page 3 was pushed, and
\* once page 3 is pushed it does return, with the whole accumulator.
C5_ReturnsAfterPage3 ==
  /\ [](Returned => Page3Collected /\ fapResult.value = allPatients)
  /\ (Page3Collected ~> Returned)

C5_Witness ==
  /\ Returned
  /\ Page3Collected
  /\ Len(fapResult.value) = 4

HardFailure == fwrResult.state = "rejected" /\ fwrResult.error = "HttpError"

\* C6 as stated: after a hard HTTP failure fetchAllPatients does not fail, the
\* page counts as empty, and the collection is eventually completed.
C6_HardFailureThenCompleted ==
  /\ [](fapResult.state # "rejected")
  /\ [](HardFailure /\ fppResult.state # "pending" => fppResult.value = <<>>)
  /\ (HardFailure ~> Returned)

\* C6, amended: after a hard HTTP failure fetchAllPatients does not fail, the
\* page counts as empty, the page number and the accumulator stay as they
\* are, and the next thing the collector does is request the same page again.
C6_HardFailureRetriesPage ==
  /\ [](fapResult.state # "rejected")
  /\ [](HardFailure /\ fppResult.state # "pending" =>
          fppResult.state = "fulfilled" /\ fppResult.value = <<>>)
  /\ [][HardFailure =>
         /\ page' = page
         /\ allPatients' = allPatients
         /\ ~HardFailure' =>
              /\ pc' = "fwr_fetch"
              /\ attempt' = 1
              /\ net' = <<GetRequest(page)>>]_vars
  /\ (HardFailure ~> ~HardFailure)

C6_Witness ==
  /\ HardFailure
  /\ fwrResult.status = 404
  /\ pc = "fap_await"
  /\ fppResult.state = "fulfilled"
  /\ fppResult.value = <<>>
  /\ page = 2
  /\ Len(accepted) = 1

(***************************************************************************)
(* Properties of assessPatients, on the iteration just completed.          *)
(***************************************************************************)
InList(list, id) == \E i \in 1..Len(list) : list[i] = id

\* C7: the record's patient_id is in the high-risk list iff
\* ageRisk + tempRisk + bpRisk >= 4, in the fever list iff its temperature is
\* valid and >= 99.6, and in the data-quality list iff one of age,
\* temperature and blood pressure is invalid; each is decided on its own.
C7_Classification ==
  apc = "iterated" =>
    /\ f.totalRisk = f.ageRisk + f.tempRisk + f.bpRisk
    /\ InList(buckets.highRiskPatients, p.patient_id)
         <=> f.ageRisk + f.tempRisk + f.bpRisk >= 4
    /\ InList(buckets.feverPatients, p.patient_id)
         <=> (f.tempValid /\ GE(ToNumber(p.temperature), Dec(996, 1)))
    /\ InList(buckets.dataQualityIssues, p.patient_id)
         <=> (~f.ageValid \/ ~f.tempValid \/ ~f.bpValid)

C7_Witness ==
  /\ apc = "iterated"
  /\ p.age = Num(70)
  /\ p.temperature = Num(102)
  /\ p.blood_pressure = Str(<<"1", "5", "0", "/", "9", "5">>)
  /\ f.totalRisk = 7
  /\ InList(buckets.highRiskPatients, p.patient_id)
  /\ InList(buckets.feverPatients, p.patient_id)
  /\ ~InList(buckets.dataQualityIssues, p.patient_id)

\* A string of exactly two integers of 2 to 3 digits with a '/' between.
TwoIntegers(s) ==
  \E i \in 1..Len(s) :
    /\ s[i] = "/"
    /\ i - 1 \in 2..3
    /\ Len(s) - i \in 2..3
    /\ \A j \in 1..Len(s) : j # i => s[j] \in Digits

SystolicOf(s) ==
  LET i == CHOOSE j \in 1..Len(s) : s[j] = "/" IN DigitsValue(SubSeq(s, 1, i - 1))
DiastolicOf(s) ==
  LET i == CHOOSE j \in 1..Len(s) : s[j] = "/" IN DigitsValue(SubSeq(s, i + 1, Len(s)))

\* C8: blood_pressure is valid iff it is a string of exactly two 2-to-3-digit
\* integers separated by '/'; a valid pair gets the first band that matches:
\* 3 if sys >= 140 or dia >= 90, else 2 if sys >= 130 or dia >= 80, else 1 if
\* sys >= 120 and dia < 80, else 0; an invalid or missing one gives bpRisk 0
\* and bpValid false.
C8_BloodPressureBands ==
  apc = "iterated" =>
    LET bp    == p.blood_pressure
        valid == bp.k = "string" /\ TwoIntegers(bp.s)
    IN  /\ f.bpValid <=> valid
        /\ ~valid => f.bpRisk = 0
        /\ valid =>
             LET sys == SystolicOf(bp.s)
                 dia == DiastolicOf(bp.s)
             IN  /\ (sys >= 140 \/ dia >= 90) => f.bpRisk = 3
                 /\ (~(sys >= 140 \/ dia >= 90) /\ (sys >= 130 \/ dia >= 80))
                      => f.bpRisk = 2
                 /\ (sys < 130 /\ dia < 80 /\ sys >= 120) => f.bpRisk = 1
                 /\ (sys < 120 /\ dia < 80) => f.bpRisk = 0
                 /\ f.bpRisk \in 0..3

C8_Witness ==
  /\ apc = "iterated"
  /\ p.blood_pressure = Str(<<"1", "2", "5", "/", "8", "5">>)
  /\ f.bpValid
  /\ f.bpRisk = 2

\* A value that is a number, or a string spelling a decimal number.
Numeric(v) ==
  \/ v.k = "number"
  \/ /\ v.k = "string"
     /\ Len(TrimRight(TrimLeft(v.s))) > 0
     /\ StringToNumber(v.s).k = "number"

\* C9: an age that coerces to a finite number a gets ageRisk 0 when a < 40,
\* 1 when 40 <= a < 66 and 2 when a >= 66; a non-numeric age gets ageRisk 0
\* and ageValid false.
C9_AgeBands ==
  apc = "iterated" =>
    LET a == ToNumber(p.age)
    IN  /\ IsFinite(a) =>
             /\ LT(a, Num(40)) => f.ageRisk = 0
             /\ (GE(a, Num(40)) /\ LT(a, Num(66))) => f.ageRisk = 1
             /\ GE(a, Num(66)) => f.ageRisk = 2
        /\ ~Numeric(p.age) => f.ageRisk = 0 /\ ~f.ageValid

\* C10: a temperature that coerces to a finite number t gets tempRisk 0 when
\* t < 99.6, 1 when 99.6 <= t < 101.0 and 2 when t >= 101.0; an invalid one
\* (no finite number) gets tempRisk 0 and tempValid false.
C10_TemperatureBands ==
  apc = "iterated" =>
    LET t == ToNumber(p.temperature)
    IN  /\ f.tempValid <=> IsFinite(t)
        /\ IsFinite(t) =>
             /\ LT(t, Dec(996, 1)) => f.tempRisk = 0
             /\ (GE(t, Dec(996, 1)) /\ LT(t, Num(101))) => f.tempRisk = 1
             /\ GE(t, Num(101)) => f.tempRisk = 2
        /\ ~IsFinite(t) => f.tempRisk = 0

C10_Witness ==
  /\ apc = "iterated"
  /\ p.temperature = Str(<<"9", "9", ".", "6">>)
  /\ f.tempValid
  /\ f.tempRisk = 1

\* C11: an invalid component (an age or temperature that coerces to no finite
\* number, a blood pressure that is not two 2-to-3-digit integers around '/')
\* adds 0 to the total risk and puts the patient in the data-quality list; an
\* invalid temperature keeps the patient out of the fever list; a record
\* without age, temperature and blood_pressure has the three flags false,
\* total risk 0 and is in the data-quality list only; so has, with ageValid
\* false alone, the record with age "unknown", temperature 98.0, bp "110/70".
C11_InvalidFieldsOnlyDataQuality ==
  apc = "iterated" =>
    LET id         == p.patient_id
        ageInvalid == ~IsFinite(ToNumber(p.age))
        tmpInvalid == ~IsFinite(ToNumber(p.temperature))
        bpInvalid  == ~(p.blood_pressure.k = "string"
                        /\ TwoIntegers(p.blood_pressure.s))
        dqOnly     == /\ InList(buckets.dataQualityIssues, id)
                      /\ ~InList(buckets.highRiskPatients, id)
                      /\ ~InList(buckets.feverPatients, id)
    IN  /\ ageInvalid =>
             /\ f.totalRisk = f.tempRisk + f.bpRisk
             /\ InList(buckets.dataQualityIssues, id)
        /\ tmpInvalid =>
             /\ f.totalRisk = f.ageRisk + f.bpRisk
             /\ InList(buckets.dataQualityIssues, id)
             /\ ~InList(buckets.feverPatients, id)
        /\ bpInvalid =>
             /\ f.totalRisk = f.ageRisk + f.tempRisk
             /\ InList(buckets.dataQualityIssues, id)
        /\ (p.age = Undefined /\ p.temperature = Undefined
            /\ p.blood_pressure = Undefined) =>
             /\ ~f.ageValid /\ ~f.tempValid /\ ~f.bpValid
             /\ f.totalRisk = 0
             /\ dqOnly
        /\ (/\ p.age = Str(<<"u", "n", "k", "n", "o", "w", "n">>)
            /\ p.temperature = Num(98)
            /\ p.blood_pressure = Str(<<"1", "1", "0", "/", "7", "0">>)) =>
             /\ f.totalRisk = 0
             /\ ~f.ageValid /\ f.tempValid /\ f.bpValid
             /\ dqOnly

C11_Witness ==
  /\ apc = "iterated"
  /\ p.age = Undefined
  /\ p.temperature = Undefined
  /\ p.blood_pressure = Undefined
  /\ f.totalRisk = 0
  /\ buckets.dataQualityIssues = ids
  /\ Len(ids) = 2
  /\ buckets.feverPatients = <<>>

(***************************************************************************)
(* Properties of the run: main, the collection and the submission.         *)
(***************************************************************************)
\* The patient_id of each record of a list, in the list's order.
PatientIds(patients) == [i \in 1..Len(patients) |-> patients[i].patient_id]

\* s is t with some of its entries left out.
RECURSIVE IsSubsequence(_, _)
IsSubsequence(s, t) ==
  IF Len(s) = 0 THEN TRUE
  ELSE IF Len(t) = 0 THEN FALSE
  ELSE IF Head(s) = Head(t) THEN IsSubsequence(Tail(s), Tail(t))
  ELSE IsSubsequence(s, Tail(t))

NoDuplicates(list) ==
  \A i, j \in 1..Len(list) : list[i] = list[j] => i = j

\* The three lists assessPatients returned to main.
ListsOf(a) == {a.highRiskPatients, a.feverPatients, a.dataQualityIssues}

\* C12: each of the three lists assessPatients returned is a subsequence of
\* the patient_id sequence of the list it was given (input order, at most one
\* entry for each record), and holds no identifier twice.
C12_ListsAreSubsequences ==
  pc = "main_done" =>
    \A list \in ListsOf(alerts) :
      /\ IsSubsequence(list, PatientIds(fapResult.value))
      /\ NoDuplicates(list)

\* main has run to its end (or ended with the failure of the collection).
MainCompleted == pc \in {"main_done", "main_rejected"}

\* C13: at most one request is in flight at any time; no request is in
\* flight while a retry or pacing wait is pending, and none is issued while
\* another is pending; nothing is assessed before the three pages are
\* collected; main does not complete while a request it issued, the
\* submission included, is outstanding.
C13_SequentialAndSuspended ==
  /\ Len(net) <= 1
  /\ Len(net) + Len(timers) <= 1
  /\ (alerts # NoAlerts \/ summary # <<>> \/ sub # "none") =>
       /\ Len(accepted) = 3
       /\ fapResult.state = "fulfilled"
  /\ MainCompleted => net = <<>>

\* The submission request in flight, if any.
Posts == {i \in 1..Len(net) : net[i].method = "POST"}

\* C14: the steps come in the order collect, assess, summary, submit: the
\* submission is issued by a step that starts with fetchAllPatients returned
\* (three pages accepted); from then on alerts is assessPatients of the whole
\* collected list and the summary shows its three lists; the payload's
\* high_risk_patients, fever_patients and data_quality_issues are those
\* three lists, each in its order.
C14_CollectAssessSubmit ==
  /\ [](sub # "none" =>
          /\ fapResult.state = "fulfilled"
          /\ alerts = assessPatients(fapResult.value)
          /\ summary = <<alerts.highRiskPatients, alerts.feverPatients,
                         alerts.dataQualityIssues>>)
  /\ [](\A i \in Posts :
          /\ sub = "fetch"
          /\ net[i].body.high_risk_patients = alerts.highRiskPatients
          /\ net[i].body.fever_patients = alerts.feverPatients
          /\ net[i].body.data_quality_issues = alerts.dataQualityIssues)
  /\ [][(sub = "none" /\ sub' # "none") =>
          /\ fapResult.state = "fulfilled"
          /\ fapResult' = fapResult
          /\ Len(accepted) = 3
          /\ summary = <<>>
          /\ Posts = {}
          /\ Len(net') = 1 /\ net'[1].method = "POST"]_vars

C14_Witness ==
  /\ sub = "fetch"
  /\ Posts = {1}
  /\ fapResult.value = <<SampleBadAge, SampleHighRisk, SampleBadAge>>
  /\ net[1].body = [high_risk_patients  |-> <<"P1">>,
                    fever_patients      |-> <<"P1">>,
                    data_quality_issues |-> <<"P2", "P2">>]
  /\ summary = <<<<"P1">>, <<"P1">>, <<"P2", "P2">>>>

SubmissionSettled == sub \in {"logged", "unhandled_rejection"}

\* C15: the submission is requested at most once, whatever its outcome (a
\* 429, 500 or 503 answer is not retried: its body is read like any other);
\* a request that failed, or a response whose body is not JSON, ends as a
\* rejection raised at the top level, never taken by a handler and dropped;
\* a body that is JSON is logged; every submission ends in one of the two.
C15_SubmitOnceAndReported ==
  /\ [](Cardinality(Posts) <= 1 /\ (Posts # {} => sub = "fetch"))
  /\ [][/\ Posts' # Posts => (sub = "none" \/ Posts' = {})
        /\ sub # "none" => sub' # "none"
        /\ SubmissionSettled => sub' = sub /\ net' = net
        /\ (sub = "fetch" /\ sub' # "fetch") =>
             sub' \in {"json", "unhandled_rejection"}
        /\ (sub = "json" /\ sub' # "json") =>
             sub' = IF subRes.body.parses THEN "logged"
                    ELSE "unhandled_rejection"]_vars
  /\ (sub = "fetch" ~> SubmissionSettled)

C15_Witness ==
  /\ sub = "unhandled_rejection"
  /\ subRes.status = 429
  /\ ~subRes.body.parses
  /\ net = <<>>

\* fetchPatientsPage(page) has returned the empty sequence to the collector.
EmptyPage ==
  /\ pc = "fap_await"
  /\ fppResult.state = "fulfilled"
  /\ fppResult.value = <<>>

\* The first request of a fetchPatientsPage call is in flight.
FirstRequest == pc = "fwr_fetch" /\ attempt = 1

\* C16: when fetchPatientsPage(n) returned the empty sequence, the
\* collector's next step leaves the page number and the accumulator as they
\* are and requests page n again, with no timer set in between; nothing
\* counts the re-attempts: as long as the collector has not returned it goes
\* on issuing first requests, and it has not returned while the page number
\* is 1, 2 or 3, so a page that stays empty is requested forever.
C16_EmptyPageRetriedForever ==
  /\ [][EmptyPage =>
          /\ page' = page
          /\ allPatients' = allPatients
          /\ accepted' = accepted
          /\ timers = <<>> /\ timers' = <<>>
          /\ net' = <<GetRequest(page)>>
          /\ FirstRequest'
          /\ fapResult' = fapResult]_vars
  /\ [](EmptyPage => page \in 1..3 /\ fapResult.state = "pending")
  /\ [](page \in 1..3 => ~Returned)
  /\ []<>(Returned \/ FirstRequest)

C16_Witness ==
  /\ EmptyPage
  /\ fwrResult.state = "fulfilled"
  /\ fwrResult.value = Payload("object", JsonValue("array", <<>>))
  /\ page = 3
  /\ Len(accepted) = 2

\* fetchPatientsPage(page) has returned a non-empty sequence to the collector.
NonEmptyPage ==
  /\ pc = "fap_await"
  /\ fppResult.state = "fulfilled"
  /\ fppResult.value # <<>>

\* The page requests in flight.
Gets == {i \in 1..Len(net) : net[i].method = "GET"}

\* C17: on a non-empty page n the collector's next step appends all of the
\* page's records to the accumulator, makes the page number n+1 and sets a
\* timer of 1 s, issuing no request; the page number changes in no other
\* way; while the timer is pending no request is in flight, and the wait is
\* left only by the timer firing; a request in flight is for the current
\* page number, so the request for page n+1 comes after that 1 s wait.
C17_PushAdvancePace ==
  /\ [][NonEmptyPage =>
          /\ allPatients' = allPatients \o fppResult.value
          /\ Len(allPatients') = Len(allPatients) + Len(fppResult.value)
          /\ page' = page + 1
          /\ timers = <<>> /\ timers' = <<1000>>
          /\ net' = <<>>
          /\ pc' = "fap_wait"]_vars
  /\ [][(page' # page /\ pc # "start") => NonEmptyPage]_vars
  /\ [][pc = "fap_wait" => timers = <<1000>> /\ timers' = <<>>]_vars
  /\ [](pc = "fap_wait" => net = <<>> /\ timers = <<1000>>
                           /\ Len(accepted) = page - 1)
  /\ [](\A i \in Gets : net[i].page = page /\ pc = "fwr_fetch")

C17_Witness ==
  /\ pc = "fap_wait"
  /\ timers = <<1000>>
  /\ page = 3
  /\ Len(accepted) = 2
  /\ allPatients = <<SampleBadAge, SampleHighRisk, SampleHighRisk>>

\* A step that issues a page request.
IssuesGet == net' # net /\ Len(net') > 0 /\ net'[Len(net')].method = "GET"

\* C18: the first page requested is page 1; a request is always for the page
\* after the pages accepted so far (so never for an accepted page again) and
\* for one of 1, 2, 3; from one request to the next the page requested stays
\* the same unless a non-empty result for it was accepted in between, which
\* makes it one more; page 4 is never requested.
C18_PagesRequestedInOrder ==
  /\ [][pc = "start" => IssuesGet /\ net' = <<GetRequest(1)>>]_vars
  /\ [][IssuesGet =>
          /\ net' = <<GetRequest(page')>>
          /\ page' \in 1..3
          /\ page' = Len(accepted') + 1
          /\ (pc # "start" => page' = page /\ accepted' = accepted)]_vars
  /\ [][pc # "start" =>
          /\ page' >= page
          /\ page' # page =>
               /\ page' = page + 1
               /\ NonEmptyPage
               /\ accepted' = Append(accepted, [page |-> page,
                                                patients |-> fppResult.value])
               /\ ~IssuesGet]_vars
  /\ [](\A i \in Gets : /\ net[i].page \in 1..3
                        /\ net[i].page = Len(accepted) + 1)
  /\ [](\A j \in 1..Len(accepted) : accepted[j].page = j)
  /\ [](page = 4 => Gets = {})

C18_Witness ==
  /\ pc = "main_await"
  /\ page = 4
  /\ net = <<>>
  /\ Len(accepted) = 3
  /\ accepted[3].patients = <<SampleBadAge, SampleHighRisk>>

(***************************************************************************)
(* Properties of assessPatients, continued.                                *)
(***************************************************************************)
\* The components of the current record that are valid, and those of them
\* with a risk above 0.
ValidComponents ==
  {c \in {"age", "temperature", "blood_pressure"} :
     \/ c = "age" /\ IsFinite(ToNumber(p.age))
     \/ c = "temperature" /\ IsFinite(ToNumber(p.temperature))
     \/ c = "blood_pressure" /\ p.blood_pressure.k = "string"
                             /\ TwoIntegers(p.blood_pressure.s)}

RiskyComponents ==
  {c \in ValidComponents :
     \/ c = "age" /\ f.ageRisk > 0
     \/ c = "temperature" /\ f.tempRisk > 0
     \/ c = "blood_pressure" /\ f.bpRisk > 0}

\* C19: the total risk of a record is in 0..7 (age at most 2, temperature at
\* most 2, blood pressure at most 3); a record is in the high-risk list only
\* if at least two of its components are valid with a risk above 0, so a
\* record with two or more invalid components is never in it.
C19_TotalRiskBounded ==
  apc = "iterated" =>
    /\ f.ageRisk \in 0..2
    /\ f.tempRisk \in 0..2
    /\ f.bpRisk \in 0..3
    /\ f.totalRisk \in 0..7
    /\ InList(buckets.highRiskPatients, p.patient_id) =>
         Cardinality(RiskyComponents) >= 2
    /\ Cardinality(ValidComponents) <= 1 =>
         ~InList(buckets.highRiskPatients, p.patient_id)

C19_Witness ==
  /\ apc = "iterated"
  /\ p.age = Undefined
  /\ p.temperature = Num(101)
  /\ p.blood_pressure = Str(<<"1", "2", "5", "/", "8", "5">>)
  /\ f.totalRisk = 4
  /\ RiskyComponents = {"temperature", "blood_pressure"}
  /\ InList(buckets.highRiskPatients, p.patient_id)

(***************************************************************************)
(* Properties of the run, continued.                                       *)
(***************************************************************************)
\* main has gone past line 140: it has assessed, written or submitted.
Assessed == pc = "main_done" \/ sub # "none" \/ summary # <<>> \/ Posts # {}

\* C20: when fetchAllPatients has returned, exactly three pages were
\* accepted, pages 1, 2 and 3, each non-empty, and the list returned has at
\* least 3 records; main assesses and submits only a list returned that way:
\* as long as fewer than three pages are accepted, nothing is assessed and no
\* submission is requested.
C20_NeverOnEmptyCollection ==
  /\ [](Returned =>
          /\ Len(accepted) = 3
          /\ \A i \in 1..3 : accepted[i].page = i /\ accepted[i].patients # <<>>
          /\ Len(fapResult.value) >= 3)
  /\ [](Len(accepted) < 3 => ~Returned /\ ~Assessed /\ alerts = NoAlerts)
  /\ [](Assessed => Returned /\ Len(fapResult.value) >= 3)
  /\ [][(~Assessed /\ Assessed') =>
          /\ pc = "main_await"
          /\ Returned
          /\ Len(fapResult.value) >= 3
          /\ fapResult' = fapResult]_vars

C20_Witness ==
  /\ pc = "main_done"
  /\ sub = "logged"
  /\ Len(fapResult.value) = 3
  /\ Len(accepted) = 3
  /\ alerts.dataQualityIssues = <<"P2", "P2", "P2">>

=============================================================================
